---- MODULE Spec2Model ----
(***************************************************************************)
(* Model of the product/review API of ReynerioSamos/reviews.               *)
(*                                                                         *)
(* The storage engine is PostgreSQL at its default isolation level (READ   *)
(* COMMITTED): the tables `product` and `review` below hold the committed  *)
(* rows, which is what every reader sees; a transaction's own writes live  *)
(* in its slot of `tx` until Commit applies them.  A statement reads the   *)
(* tables through the snapshot taken when it starts; the data-modifying    *)
(* sub-statements of one WITH query all run on that one snapshot and do    *)
(* not see one another's effects on the tables.                            *)
(*                                                                         *)
(* avg_rating is DECIMAL(3,2): it is modelled in hundredths (3.00 is 300). *)
(***************************************************************************)
EXTENDS Integers, Sequences, FiniteSets, TLC

VARIABLES
    product,    \* committed rows of table product: pid -> [avg_rating, pname, product_category]
    review,     \* committed rows of table review: rid -> [prod_id, rating, helpful_count, created_at]
    nextPid,    \* next value of the bigserial sequence of product.pid
    nextRid,    \* next value of the bigserial sequence of review.rid
    tx,         \* per concurrent request: its review transaction, then its result
    votes,      \* history: per review, the increments applied to it, in order
    request,    \* the list requests received and not yet served (at most one)
    listing     \* the response to the list request, once it has been served

vars == <<product, review, nextPid, nextRid, tx, votes, request, listing>>

----------------------------------------------------------------------------
(* Bounds of the model *)

MaxPid == 2          \* products created in one run
MaxRid == 2          \* reviews created in one run
MaxVotes == 3        \* helpful-count statements applied to one review
MaxTotal == 25       \* rows a list statement matches
MaxPage == 5         \* pages asked for when the metadata is computed

(* Constants of the program *)

minRating == 1
maxRating == 5
NULL == -1           \* SQL NULL in the nullable column avg_rating

Txs == {1, 2}        \* requests that can hold a review transaction at once
Ratings == minRating..maxRating
SomeRatings == {2, 4}

Max(a, b) == IF a >= b THEN a ELSE b

Front(seq) == SubSeq(seq, 1, Len(seq) - 1)

----------------------------------------------------------------------------
(* Aggregates over a review table (a function rid -> row) *)

ReviewsOf(tbl, pid) == {r \in DOMAIN tbl : tbl[r].prod_id = pid}

RECURSIVE SumRatings(_, _)
SumRatings(tbl, rids) ==
    IF rids = {} THEN 0
    ELSE LET r == CHOOSE x \in rids : TRUE
         IN  tbl[r].rating + SumRatings(tbl, rids \ {r})

\* ROUND(x, 2) of the non-negative rational num/den, in hundredths; numeric
\* ROUND rounds half away from zero.
Round2(num, den) == (200 * num + den) \div (2 * den)

\* (SELECT ROUND(AVG(rating)::numeric, 2) FROM review r WHERE r.prod_id = pid),
\* evaluated on table tbl: AVG of no row is NULL.
AvgRating(tbl, pid) ==
    LET rids == ReviewsOf(tbl, pid)
    IN  IF rids = {} THEN NULL
        ELSE Round2(SumRatings(tbl, rids), Cardinality(rids))

\* COALESCE(x, 0)
Coalesce0(x) == IF x = NULL THEN 0 ELSE x

\* helpful_count + $1, without the floor
Unfloored(old, inc) == old + inc

\* GREATEST(0, helpful_count) + $1: the floor applied before the addition
FlooredFirst(old, inc) == Max(0, old) + inc

\* GREATEST(0, helpful_count + $1)
Greatest0(old, inc) == Max(0, old + inc)

----------------------------------------------------------------------------
\* A request's slot.  pc is "idle", "started" (BeginTx done, the statement has
\* its snapshot) or "executed" (the statement has run, tx.Commit() is next).
\* pid and avg are what the statement reads from its snapshot: the owning
\* product (0 when the statement sees no such row) and the aggregate that
\* update_avg assigns.  In an idle slot res is
\* what the last operation returned: "ok", "notfound" (ErrRecordNotFound) or
\* "error" (any other error).  conc is history: a review transaction on the
\* same product committed while this one was open.
IdleTx == [pc |-> "idle", op |-> "none", id |-> 0, rating |-> 0, pid |-> 0,
           avg |-> NULL, conc |-> FALSE, res |-> "none",
           handler |-> "none", errors |-> {}, status |-> 0, location |-> 0,
           pname |-> <<>>, category |-> <<>>, body |-> {}]

Done(res) == [IdleTx EXCEPT !.res = res]

Without(tbl, rids) == [r \in DOMAIN tbl \ rids |-> tbl[r]]

----------------------------------------------------------------------------
(* Row locks, as held by the open transactions *)

\* t has run its statement: it holds the review row it wrote and the product
\* row whose avg_rating it wrote, until it commits or rolls back
HoldsReview(t, rid) ==
    tx[t].pc = "executed" /\ tx[t].op \in {"update", "delete"} /\ tx[t].id = rid

HoldsProduct(t, pid) == tx[t].pc = "executed" /\ tx[t].pid = pid

ReviewLocked(rid) == \E t \in Txs : HoldsReview(t, rid)

----------------------------------------------------------------------------
NoRequest == <<>>
NoFilters == [Page |-> 0, PageSize |-> 0, Sort |-> <<>>, SortSafeList |-> <<>>]
NoQuery == [column |-> <<>>, direction |-> <<>>, limit |-> 0, offset |-> 0]
\* Metadata{}: omitempty leaves a zero field out of the response
NoMetadata == [CurrentPage |-> 0, PageSize |-> 0, FirstPage |-> 0,
               LastPage |-> 0, TotalRecords |-> 0, HasNextPage |-> FALSE,
               HasPrevPage |-> FALSE, NextPage |-> 0, PrevPage |-> 0]
NoListing == [status |-> "none", parsed |-> {}, errors |-> {},
              filters |-> NoFilters, query |-> NoQuery,
              total |-> 0, metadata |-> NoMetadata,
              route |-> "none", where |-> <<>>, rows |-> <<>>]

Database ==
    /\ product = <<>>
    /\ review = <<>>
    /\ nextPid = 1
    /\ nextRid = 1
    /\ tx = [t \in Txs |-> IdleTx]
    /\ votes = <<>>

Init ==
    /\ Database
    /\ request = NoRequest
    /\ listing = NoListing

----------------------------------------------------------------------------
(* Responses.  An http.ResponseWriter sends the status line and the headers *)
(* with the first write: a write before WriteHeader sends status 200, and   *)
(* a header set or a WriteHeader after the first write changes nothing.     *)

NewResponse == [wrote |-> FALSE, status |-> 0, location |-> 0]

\* fmt.Fprintf(w, ...)
Fprintf(w) == IF w.wrote THEN w ELSE [w EXCEPT !.wrote = TRUE, !.status = 200]

\* writeJson(w, status, data, headers); location is the id in the Location
\* header, 0 when headers holds none
writeJson(w, status, location) ==
    IF w.wrote THEN w
    ELSE [wrote |-> TRUE, status |-> status, location |-> location]

StatusOK == 200
StatusCreated == 201
StatusBadRequest == 400
StatusNotFound == 404
StatusInternalServerError == 500

notFoundResponse(w) == writeJson(w, StatusNotFound, 0)
badRequestResponse(w) == writeJson(w, StatusBadRequest, 0)
failedValidationResponse(w) == writeJson(w, StatusBadRequest, 0)
serverErrorResponse(w) == writeJson(w, StatusInternalServerError, 0)

\* what a handler does with the result res of its repository call
Respond(handler, res, id) ==
    CASE handler = "createReview" ->
             IF res # "ok" THEN serverErrorResponse(NewResponse)
             ELSE writeJson(Fprintf(NewResponse), StatusCreated, id)
      [] handler = "updateReview" ->
             IF res # "ok" THEN serverErrorResponse(NewResponse)
             ELSE writeJson(NewResponse, StatusOK, 0)
      [] handler = "deleteReview" ->
             IF res = "notfound" THEN notFoundResponse(NewResponse)
             ELSE IF res # "ok" THEN serverErrorResponse(NewResponse)
             ELSE writeJson(NewResponse, StatusOK, 0)
      [] OTHER -> NewResponse

\* The repository method called in slot returns res.  Called on its own,
\* only the result stays; called by a handler, the handler answers, and the
\* request and its response stay.
Reply(slot, res) ==
    IF slot.handler = "none" THEN Done(res)
    ELSE [slot EXCEPT !.pc = "idle", !.res = res, !.avg = NULL,
                      !.conc = FALSE,
                      !.status = Respond(slot.handler, res, slot.id).status,
                      !.location = Respond(slot.handler, res, slot.id).location]

----------------------------------------------------------------------------
\* The value update_avg assigns to avg_rating: the aggregate is read from the
\* statement's snapshot snap of table review, which holds neither the
\* inserted row nor the new rating and still holds the deleted row.  Only
\* Delete wraps it in COALESCE.
NewAvg(op, snap, pid) ==
    IF op = "delete" THEN Coalesce0(AvgRating(snap, pid))
    ELSE AvgRating(snap, pid)

\* pid if table tbl holds product pid, else 0
SeenIn(tbl, pid) == IF pid \in DOMAIN tbl THEN pid ELSE 0

\* inserts that have begun and not yet drawn their rid from the sequence
PendingInserts == {u \in Txs : tx[u].pc = "started" /\ tx[u].op = "insert"}

(* ReviewModel.Insert: BeginTx; the WITH query starts and takes its         *)
(* snapshot.                                                                *)
InsertBegin(t, pid, rating, handler) ==
    /\ nextRid + Cardinality(PendingInserts) <= MaxRid
    /\ tx' = [tx EXCEPT ![t] =
                [IdleTx EXCEPT !.pc = "started", !.op = "insert",
                               !.rating = rating,
                               !.pid = SeenIn(product, pid),
                               !.avg = NewAvg("insert", review, pid),
                               !.handler = handler]]
    /\ UNCHANGED <<product, review, nextPid, nextRid, votes, request, listing>>

\* ReviewModel.Insert called on its own
InsertStart(t, pid, rating) ==
    /\ tx[t].pc = "idle"
    /\ InsertBegin(t, pid, rating, "none")

\* the product that owns review rid in table snap (0: the row is not there)
OwnerOf(snap, rid) == IF rid \in DOMAIN snap THEN snap[rid].prod_id ELSE 0

(* ReviewModel.Update: BeginTx; the WITH query starts and takes its         *)
(* snapshot.                                                                *)
UpdateBegin(t, rid, rating, handler) ==
    /\ tx' = [tx EXCEPT ![t] =
                [IdleTx EXCEPT !.pc = "started", !.op = "update", !.id = rid,
                               !.rating = rating,
                               !.pid = OwnerOf(review, rid),
                               !.avg = NewAvg("update", review,
                                              OwnerOf(review, rid)),
                               !.handler = handler]]
    /\ UNCHANGED <<product, review, nextPid, nextRid, votes, request, listing>>

\* ReviewModel.Update called on its own
UpdateStart(t, rid, rating) ==
    /\ tx[t].pc = "idle"
    /\ UpdateBegin(t, rid, rating, "none")

(* ReviewModel.Delete: the id check; BeginTx; the WITH query starts and     *)
(* takes its snapshot.                                                      *)
DeleteBegin(t, id, handler) ==
    /\ IF id < 1
       THEN \* fmt.Errorf("invalid review ID: %d", id)
            tx' = [tx EXCEPT ![t] =
                     Reply([IdleTx EXCEPT !.op = "delete", !.id = id,
                                          !.handler = handler], "error")]
       ELSE tx' = [tx EXCEPT ![t] =
                     [IdleTx EXCEPT !.pc = "started", !.op = "delete",
                                    !.id = id,
                                    !.pid = OwnerOf(review, id),
                                    !.avg = NewAvg("delete", review,
                                                   OwnerOf(review, id)),
                                    !.handler = handler]]
    /\ UNCHANGED <<product, review, nextPid, nextRid, votes, request, listing>>

\* ReviewModel.Delete called on its own
DeleteStart(t, id) ==
    /\ tx[t].pc = "idle"
    /\ DeleteBegin(t, id, "none")

(* The WITH query runs.  INSERT draws the next rid (also when the statement *)
(* then fails); its foreign key fk_product must find the product row, and   *)
(* update_avg must find it in the snapshot, or the CROSS JOIN has no row.   *)
(* UPDATE and DELETE need the row visible in the snapshot and still there   *)
(* in its latest committed version.  The statement waits while another      *)
(* transaction holds the product row (whose avg_rating update_avg writes)   *)
(* or the review row.                                                       *)
Exec(t) ==
    /\ tx[t].pc = "started"
    /\ \A u \in Txs \ {t} : ~HoldsProduct(u, tx[t].pid)
    /\ IF tx[t].op = "insert"
       THEN /\ nextRid' = nextRid + 1
            /\ IF tx[t].pid # 0 /\ tx[t].pid \in DOMAIN product
               THEN tx' = [tx EXCEPT ![t].pc = "executed", ![t].id = nextRid]
               ELSE \* "failed to insert review"; the deferred Rollback runs
                    tx' = [tx EXCEPT ![t] = Reply(tx[t], "error")]
       ELSE /\ nextRid' = nextRid
            /\ IF tx[t].pid # 0 /\ tx[t].id \in DOMAIN review
               THEN tx' = [tx EXCEPT ![t].pc = "executed"]
               ELSE \* no row: sql.ErrNoRows (Update), deleted = false
                    \* (Delete); both return ErrRecordNotFound
                    tx' = [tx EXCEPT ![t] = Reply(tx[t], "notfound")]
    /\ UNCHANGED <<product, review, nextPid, votes, request, listing>>

\* as CommitReview, but Update writes the whole row back with the helpful
\* count of a new row
CommitWholeRow(t) ==
    CASE tx[t].op = "insert" ->
             review @@ (tx[t].id :> [prod_id |-> tx[t].pid,
                                     rating |-> tx[t].rating,
                                     helpful_count |-> 0,
                                     created_at |-> tx[t].id])
      [] tx[t].op = "update" ->
             [review EXCEPT ![tx[t].id] = [prod_id |-> tx[t].pid,
                                           rating |-> tx[t].rating,
                                           helpful_count |-> 0,
                                           created_at |-> @.created_at]]
      [] tx[t].op = "delete" -> Without(review, {tx[t].id})

\* as CommitReview, but Update sets created_at to the time of the update
CommitRestamped(t) ==
    CASE tx[t].op = "insert" ->
             review @@ (tx[t].id :> [prod_id |-> tx[t].pid,
                                     rating |-> tx[t].rating,
                                     helpful_count |-> 0,
                                     created_at |-> tx[t].id])
      [] tx[t].op = "update" ->
             [review EXCEPT ![tx[t].id].rating = tx[t].rating,
                            ![tx[t].id].created_at = nextRid]
      [] tx[t].op = "delete" -> Without(review, {tx[t].id})

\* table review once transaction t has committed; created_at, DEFAULT NOW()
\* of the INSERT, is counted in rows inserted so far
CommitReview(t) ==
    CASE tx[t].op = "insert" ->
             review @@ (tx[t].id :> [prod_id |-> tx[t].pid,
                                     rating |-> tx[t].rating,
                                     helpful_count |-> 0,
                                     created_at |-> tx[t].id])
      [] tx[t].op = "update" -> [review EXCEPT ![tx[t].id].rating = tx[t].rating]
      [] tx[t].op = "delete" -> Without(review, {tx[t].id})

\* the review change committed without the average
CommitNoAverage(t) == product

\* table product once transaction t has committed
CommitProduct(t) == [product EXCEPT ![tx[t].pid].avg_rating = tx[t].avg]

(* tx.Commit() succeeds: both writes become visible together. *)
Commit(t) ==
    /\ tx[t].pc = "executed"
    /\ review' = CommitReview(t)
    /\ product' = CommitProduct(t)
    /\ votes' = CASE tx[t].op = "insert" -> votes @@ (tx[t].id :> <<>>)
                  [] tx[t].op = "delete" -> Without(votes, {tx[t].id})
                  [] OTHER -> votes
    /\ tx' = [u \in Txs |->
                IF u = t THEN Reply(tx[t], "ok")
                ELSE IF tx[u].pc = "started" /\ tx[u].pid = tx[t].pid
                     THEN [tx[u] EXCEPT !.conc = TRUE]
                     ELSE tx[u]]
    /\ UNCHANGED <<nextPid, nextRid, request, listing>>

(* A storage error, the timeout of the context or a failed tx.Commit():     *)
(* the deferred tx.Rollback() discards the transaction's writes.            *)
Fail(t) ==
    /\ tx[t].pc \in {"started", "executed"}
    /\ tx' = [tx EXCEPT ![t] = Reply(tx[t], "error")]
    /\ UNCHANGED <<product, review, nextPid, nextRid, votes, request, listing>>

\* the name and the category of the products that are inserted
NewPname == <<"a">>
NewCategory == <<"x">>

----------------------------------------------------------------------------
(* ProductModel.Insert: avg_rating is not in the column list and has no     *)
(* default, so the new row holds NULL.                                      *)
ProductInsert ==
    /\ nextPid <= MaxPid
    /\ product' = product @@ (nextPid :> [avg_rating |-> NULL,
                                         pname |-> NewPname,
                                         product_category |-> NewCategory])
    /\ nextPid' = nextPid + 1
    /\ UNCHANGED <<review, nextRid, tx, votes, request, listing>>

\* ProductModel.Delete on a review table without ON DELETE CASCADE checked
\* at the delete: the reviews of the product stay
ProductDeleteNoCascade(id) ==
    /\ id >= 1
    /\ id \in DOMAIN product
    /\ \A t \in Txs : ~HoldsProduct(t, id)
    /\ product' = Without(product, {id})
    /\ UNCHANGED <<review, votes, nextPid, nextRid, tx, request, listing>>

(* ProductModel.Delete: one DELETE statement; ON DELETE CASCADE deletes the *)
(* product's reviews with it.  It waits while an open transaction holds the *)
(* product row or one of these reviews.                                     *)
ProductDelete(id) ==
    /\ id >= 1
    /\ id \in DOMAIN product
    /\ \A t \in Txs : ~HoldsProduct(t, id)
    /\ product' = Without(product, {id})
    /\ review' = Without(review, ReviewsOf(review, id))
    /\ votes' = Without(votes, ReviewsOf(review, id))
    /\ UNCHANGED <<nextPid, nextRid, tx, request, listing>>

\* as ProductUpdate, with the Avg_Rating of the Product, which no request
\* sets and is 0, written as well
ProductUpdateWithAverage(id, pname, category) ==
    /\ id >= 1
    /\ id \in DOMAIN product
    /\ \A t \in Txs : ~HoldsProduct(t, id)
    /\ product' = [product EXCEPT ![id].pname = pname,
                                  ![id].product_category = category,
                                  ![id].avg_rating = 0]
    /\ UNCHANGED <<review, votes, nextPid, nextRid, tx, request, listing>>

(* ProductModel.Update: one UPDATE statement that sets pname,               *)
(* product_category and image_url (not modelled; it is written like the     *)
(* other two) of the row.  It waits while an open transaction holds the     *)
(* row.  On an id that no row has it changes nothing and returns            *)
(* ErrRecordNotFound.                                                       *)
ProductUpdate(id, pname, category) ==
    /\ id >= 1
    /\ id \in DOMAIN product
    /\ \A t \in Txs : ~HoldsProduct(t, id)
    /\ product' = [product EXCEPT ![id].pname = pname,
                                  ![id].product_category = category]
    /\ UNCHANGED <<review, votes, nextPid, nextRid, tx, request, listing>>

\* What ProductModel.Get(id) returns on the committed tables: Scan cannot
\* convert a NULL avg_rating to float32 and returns an error.
GetProduct(id) ==
    IF id < 1 \/ id \notin DOMAIN product THEN [err |-> "notfound", avg |-> 0]
    ELSE IF product[id].avg_rating = NULL THEN [err |-> "error", avg |-> 0]
    ELSE [err |-> "ok", avg |-> product[id].avg_rating]

\* What ReviewModel.Get(id) returns on the committed tables: the row joined
\* with its product.
GetReview(id) ==
    IF id < 1 THEN [err |-> "notfound", prod_id |-> 0, rating |-> 0]
    ELSE IF id \notin DOMAIN review \/ review[id].prod_id \notin DOMAIN product
         THEN [err |-> "notfound", prod_id |-> 0, rating |-> 0]
         ELSE [err |-> "ok", prod_id |-> review[id].prod_id,
               rating |-> review[id].rating]

(* ReviewModel.UpdateHelpfulCount: one UPDATE statement.  It waits while an *)
(* open transaction holds the row; it updates no row, and returns           *)
(* ErrRecordNotFound, when the review is not there.                         *)
UpdateHelpfulCount(rid, increment) ==
    /\ increment = 1 \/ increment = -1
    /\ rid \in DOMAIN review
    /\ ~ReviewLocked(rid)
    /\ Len(votes[rid]) < MaxVotes
    /\ review' = [review EXCEPT ![rid].helpful_count = Greatest0(@, increment)]
    /\ votes' = [votes EXCEPT ![rid] = Append(@, increment)]
    /\ UNCHANGED <<product, nextPid, nextRid, tx, request, listing>>

----------------------------------------------------------------------------
(* Query strings.  A string is the sequence of its characters; a query     *)
(* parameter that is absent reads as the empty string (url.Values.Get).    *)

Dash == <<"-">>
ASC == <<"A", "S", "C">>
DESC == <<"D", "E", "S", "C">>

\* strings.HasPrefix
HasPrefix(s, prefix) ==
    Len(s) >= Len(prefix) /\ SubSeq(s, 1, Len(prefix)) = prefix

\* strings.TrimPrefix
TrimPrefix(s, prefix) ==
    IF HasPrefix(s, prefix) THEN SubSeq(s, Len(prefix) + 1, Len(s)) ELSE s

Digits == <<"0", "1", "2", "3", "4", "5", "6", "7", "8", "9">>
IsDigit(c) == \E d \in DOMAIN Digits : Digits[d] = c
DigitVal(c) == (CHOOSE d \in DOMAIN Digits : Digits[d] = c) - 1

RECURSIVE Decimal(_)
Decimal(s) ==
    IF s = <<>> THEN 0 ELSE 10 * Decimal(Front(s)) + DigitVal(s[Len(s)])

\* strconv.Atoi, for texts short enough not to leave the range of int:
\* an optional sign followed by at least one digit and nothing else
Atoi(s) ==
    LET signed == s # <<>> /\ s[1] \in {"-", "+"}
        body == IF signed THEN Tail(s) ELSE s
    IN  IF body = <<>> \/ \E i \in DOMAIN body : ~IsDigit(body[i])
        THEN [err |-> TRUE, n |-> 0]
        ELSE [err |-> FALSE,
              n |-> IF signed /\ s[1] = "-" THEN 0 - Decimal(body)
                    ELSE Decimal(body)]

(* The validator: the set of the keys an error has been added for. *)

AddError(v, key) == v \cup {key}
Check(v, ok, key) == IF ok THEN v ELSE AddError(v, key)
IsEmpty(v) == v = {}
PermittedValue(value, permitted) ==
    \E i \in DOMAIN permitted : permitted[i] = value

getSingleQueryParameter(q, key, defaultValue) ==
    IF q[key] = <<>> THEN defaultValue ELSE q[key]

\* the value read, and the validator after the read
getSingleIntegerParameter(q, key, defaultValue, v) ==
    IF q[key] = <<>> THEN [n |-> defaultValue, v |-> v]
    ELSE IF Atoi(q[key]).err
         THEN [n |-> defaultValue, v |-> AddError(v, key)]
         ELSE [n |-> Atoi(q[key]).n, v |-> v]

MaxPageSize == 100
MaxPageNumber == 500

\* ValidateFilters as it was before the descending marker was stripped
ValidateFiltersWholeKey(v, f) ==
    LET v1 == Check(v, f.Page > 0, "page")
        v2 == Check(v1, f.Page <= MaxPageNumber, "page")
        v3 == Check(v2, f.PageSize > 0, "page_size")
        v4 == Check(v3, f.PageSize <= MaxPageSize, "page_size")
    IN  Check(v4, PermittedValue(f.Sort, f.SortSafeList), "sort")

ValidateFilters(v, f) ==
    LET v1 == Check(v, f.Page > 0, "page")
        v2 == Check(v1, f.Page <= MaxPageNumber, "page")
        v3 == Check(v2, f.PageSize > 0, "page_size")
        v4 == Check(v3, f.PageSize <= MaxPageSize, "page_size")
    IN  IF f.Sort # <<>>
        THEN Check(v4, PermittedValue(TrimPrefix(f.Sort, Dash), f.SortSafeList),
                   "sort")
        ELSE v4

Panic == <<"panic">>

\* sortColumn without the check against the safe list
sortColumnUnchecked(f) == TrimPrefix(f.Sort, Dash)

sortColumn(f) ==
    IF \E i \in DOMAIN f.SortSafeList : f.Sort = f.SortSafeList[i]
    THEN TrimPrefix(f.Sort, Dash)
    ELSE IF Len(f.SortSafeList) > 0 THEN f.SortSafeList[1] ELSE Panic

sortDirection(f) == IF HasPrefix(f.Sort, Dash) THEN DESC ELSE ASC

limit(f) == f.PageSize

\* the offset counted from page 0
offsetFromPageZero(f) == f.Page * f.PageSize

offset(f) == (f.Page - 1) * f.PageSize

\* calculateMetaData with the last page rounded down
calculateMetaDataFloor(totalRecords, currentPage, pageSize) ==
    IF totalRecords = 0 THEN NoMetadata
    ELSE LET lastPage == totalRecords \div pageSize
             hasNext == currentPage < lastPage
             hasPrev == currentPage > 1
         IN  [CurrentPage |-> currentPage, PageSize |-> pageSize,
              FirstPage |-> 1, LastPage |-> lastPage,
              TotalRecords |-> totalRecords,
              HasNextPage |-> hasNext, HasPrevPage |-> hasPrev,
              NextPage |-> IF hasNext THEN currentPage + 1 ELSE 0,
              PrevPage |-> IF hasPrev THEN currentPage - 1 ELSE 0]

calculateMetaData(totalRecords, currentPage, pageSize) ==
    IF totalRecords = 0 THEN NoMetadata
    ELSE LET lastPage == (totalRecords + pageSize - 1) \div pageSize
             hasNext == currentPage < lastPage
             hasPrev == currentPage > 1
         IN  [CurrentPage |-> currentPage, PageSize |-> pageSize,
              FirstPage |-> 1, LastPage |-> lastPage,
              TotalRecords |-> totalRecords,
              HasNextPage |-> hasNext, HasPrevPage |-> hasPrev,
              NextPage |-> IF hasNext THEN currentPage + 1 ELSE 0,
              PrevPage |-> IF hasPrev THEN currentPage - 1 ELSE 0]

\* GetAll computes the metadata of a page of a result of totalRecords rows.
CalculateMetaData(totalRecords, currentPage, pageSize) ==
    /\ request = NoRequest
    /\ listing' = [NoListing EXCEPT
                      !.status = "metadata",
                      !.filters = [NoFilters EXCEPT !.Page = currentPage,
                                                    !.PageSize = pageSize],
                      !.total = totalRecords,
                      !.metadata = calculateMetaData(totalRecords, currentPage,
                                                     pageSize)]
    /\ UNCHANGED <<product, review, nextPid, nextRid, tx, votes, request>>

\* the ORDER BY, LIMIT and OFFSET of the statement GetAll sends
GetAllQuery(f) ==
    [column |-> sortColumn(f), direction |-> sortDirection(f),
     limit |-> limit(f), offset |-> offset(f)]

sRid == <<"r", "i", "d">>
sRating == <<"r", "a", "t", "i", "n", "g">>
sHelpfulCount == <<"h", "e", "l", "p", "f", "u", "l", "_", "c", "o", "u", "n", "t">>
sCreatedAt == <<"c", "r", "e", "a", "t", "e", "d", "_", "a", "t">>

ReviewSortSafeList ==
    <<sRid, sRating, sHelpfulCount, sCreatedAt,
      Dash \o sRid, Dash \o sRating, Dash \o sHelpfulCount, Dash \o sCreatedAt>>

sPid == <<"p", "i", "d">>
sPname == <<"p", "n", "a", "m", "e">>
sProductCategory ==
    <<"p", "r", "o", "d", "u", "c", "t", "_", "c", "a", "t", "e", "g", "o", "r", "y">>
sAvgRating == <<"a", "v", "g", "_", "r", "a", "t", "i", "n", "g">>
sName == <<"n", "a", "m", "e">>

ProductSortSafeList ==
    <<sPid, sPname, sProductCategory, sAvgRating,
      Dash \o sPid, Dash \o sPname, Dash \o sProductCategory,
      Dash \o sAvgRating>>

\* the columns of table product
ProductColumns ==
    {sPid, sCreatedAt, sPname, sProductCategory,
     <<"i", "m", "a", "g", "e", "_", "U", "R", "L">>, sAvgRating}

\* The ids DOMAIN key in the order of ORDER BY key [DESC], id ASC
RECURSIVE OrderBy(_, _)
OrderBy(key, desc) ==
    IF DOMAIN key = {} THEN <<>>
    ELSE LET Before(x, y) == IF key[x] = key[y] THEN x < y
                             ELSE IF desc THEN key[x] > key[y]
                             ELSE key[x] < key[y]
             first == CHOOSE x \in DOMAIN key :
                          \A y \in DOMAIN key \ {x} : Before(x, y)
         IN  <<first>> \o
             OrderBy([y \in DOMAIN key \ {first} |-> key[y]], desc)

\* LIMIT lim OFFSET off
LimitOffset(rows, lim, off) ==
    IF off >= Len(rows) THEN <<>>
    ELSE SubSeq(rows, off + 1, IF off + lim < Len(rows) THEN off + lim
                               ELSE Len(rows))

\* fmt.Sprintf("%.2f", avg_rating) of a whole number, read in hundredths,
\* the unit CAST(avg_rating AS TEXT) of a DECIMAL(3,2) is read in
FormatAvg(avg_rating) == 100 * avg_rating

\* The WHERE of ProductModel.GetAll on table tbl.  The texts are one word,
\* which the text search matches when the words are equal; $3 is never ''
\* and has no wildcard, and a NULL avg_rating is LIKE nothing.
ProductWhere(tbl, pname, category, avgRatingStr) ==
    {p \in DOMAIN tbl :
        /\ pname = <<>> \/ tbl[p].pname = pname
        /\ category = <<>> \/ tbl[p].product_category = category
        /\ tbl[p].avg_rating # NULL /\ tbl[p].avg_rating = avgRatingStr}

(* ProductModel.GetAll: the statement orders by pid; totalRecords is        *)
(* scanned from the window count of the rows of the page and stays 0       *)
(* when the page has no row.                                                *)
ProductGetAll(pname, category, avg_rating, f) ==
    LET matching == ProductWhere(product, pname, category,
                                 FormatAvg(avg_rating))
        rows == LimitOffset(OrderBy([p \in matching |-> p], FALSE),
                            limit(f), offset(f))
        totalRecords == IF rows = <<>> THEN 0 ELSE Cardinality(matching)
    IN  [err |-> "ok", rows |-> rows, total |-> totalRecords,
         metadata |-> calculateMetaData(totalRecords, f.Page, f.PageSize)]

\* the value ORDER BY column sorts review rid of tbl by
ReviewKey(tbl, rid, column) ==
    CASE column = sRating -> tbl[rid].rating
      [] column = sHelpfulCount -> tbl[rid].helpful_count
      [] column = sCreatedAt -> tbl[rid].created_at
      [] OTHER -> rid

\* The JOIN and the WHERE of ReviewModel.GetAll on tables rev and prod
ReviewWhere(rev, prod, prod_id, rating, helpful_count) ==
    {r \in DOMAIN rev :
        /\ rev[r].prod_id \in DOMAIN prod
        /\ rev[r].prod_id = prod_id
        /\ rev[r].rating = rating
        /\ rev[r].helpful_count = helpful_count}

(* ReviewModel.GetAll.  The statement selects p.name; the storage engine    *)
(* rejects a statement that names a column the table does not have, and     *)
(* GetAll returns "querying reviews: ...".  The parameters are integers,    *)
(* sent as their text, so $1 = '' is false for each of them.                *)
ReviewGetAll(prod_id, rating, helpful_count, f) ==
    LET matching == ReviewWhere(review, product, prod_id, rating,
                                helpful_count)
        rows == LimitOffset(
                    OrderBy([r \in matching |->
                                ReviewKey(review, r, sortColumn(f))],
                            sortDirection(f) = DESC),
                    limit(f), offset(f))
        totalRecords == IF rows = <<>> THEN 0 ELSE Cardinality(matching)
    IN  IF sName \notin ProductColumns
        THEN [err |-> "error", rows |-> <<>>, total |-> 0,
              metadata |-> NoMetadata]
        ELSE [err |-> "ok", rows |-> rows, total |-> totalRecords,
              metadata |-> calculateMetaData(totalRecords, f.Page,
                                             f.PageSize)]

\* strconv.ParseFloat of a text; the texts of the requests hold no fraction
ParseFloat(text) == Atoi(text)

\* A client sends a list request with one of the query strings of qs.
ListRequest(qs) ==
    /\ request = NoRequest
    /\ listing = NoListing
    /\ \E q \in qs : request' = <<q>>
    /\ UNCHANGED <<product, review, nextPid, nextRid, tx, votes, listing>>

\* The client takes the response.
ListResponse ==
    /\ listing # NoListing
    /\ listing' = NoListing
    /\ UNCHANGED <<product, review, nextPid, nextRid, tx, votes, request>>

\* GET /reviews.  The statement of GetAll selects p.name, which is not a
\* column of product (its name column is pname), so the storage engine
\* rejects the statement and the handler answers with a server error.
ListReviewsHandler ==
    /\ request # NoRequest
    /\ "prod_id" \in DOMAIN request[1]
    /\ LET q == request[1]
           entity == {k \in {"prod_id", "rating", "helpful_count"} :
                         q[k] # <<>> /\ Atoi(q[k]).err}
           first == IF "prod_id" \in entity THEN "prod_id"
                    ELSE IF "rating" \in entity THEN "rating"
                    ELSE "helpful_count"
           page == getSingleIntegerParameter(q, "page", 1, {})
           size == getSingleIntegerParameter(q, "page_size", 10, page.v)
           f == [Page |-> page.n, PageSize |-> size.n,
                 Sort |-> getSingleQueryParameter(q, "sort", sRid),
                 SortSafeList |-> ReviewSortSafeList]
           v == ValidateFilters(size.v, f)
           got == ReviewGetAll(Atoi(q.prod_id).n, Atoi(q.rating).n,
                               Atoi(q.helpful_count).n, f)
       IN  listing' =
               IF entity # {}
               THEN [NoListing EXCEPT !.status = "failed",
                                      !.errors = AddError({}, first)]
               ELSE IF ~IsEmpty(v)
               THEN [NoListing EXCEPT !.status = "failed", !.parsed = size.v,
                                      !.errors = v, !.filters = f]
               ELSE [NoListing EXCEPT !.status = got.err, !.parsed = size.v,
                                      !.errors = v, !.filters = f,
                                      !.query = GetAllQuery(f),
                                      !.total = got.total,
                                      !.metadata = got.metadata,
                                      !.route = "review",
                                      !.where = <<Atoi(q.prod_id).n,
                                                  Atoi(q.rating).n,
                                                  Atoi(q.helpful_count).n>>,
                                      !.rows = got.rows]
    /\ request' = NoRequest
    /\ UNCHANGED <<product, review, nextPid, nextRid, tx, votes>>

\* GET /v1/product
ListProductsHandler ==
    /\ request # NoRequest
    /\ "pname" \in DOMAIN request[1]
    /\ LET q == request[1]
           pname == getSingleQueryParameter(q, "pname", <<>>)
           category == getSingleQueryParameter(q, "product_category", <<>>)
           avgRatingStr == getSingleQueryParameter(q, "avg_rating", <<>>)
           avg_rating == IF avgRatingStr = <<>> THEN 0
                         ELSE ParseFloat(avgRatingStr).n
           page == getSingleIntegerParameter(q, "page", 1, {})
           size == getSingleIntegerParameter(q, "page_size", 10, page.v)
           f == [Page |-> page.n, PageSize |-> size.n,
                 Sort |-> getSingleQueryParameter(q, "sort", sPid),
                 SortSafeList |-> ProductSortSafeList]
           v == ValidateFilters(size.v, f)
           got == ProductGetAll(pname, category, avg_rating, f)
       IN  listing' =
               IF avgRatingStr # <<>> /\ ParseFloat(avgRatingStr).err
               THEN [NoListing EXCEPT !.status = "failed",
                                      !.errors = AddError({}, "avg_rating")]
               ELSE IF ~IsEmpty(v)
               THEN [NoListing EXCEPT !.status = "failed", !.parsed = size.v,
                                      !.errors = v, !.filters = f]
               ELSE [NoListing EXCEPT !.status = got.err, !.parsed = size.v,
                                      !.errors = v, !.filters = f,
                                      !.query = [column |-> sPid,
                                                 direction |-> ASC,
                                                 limit |-> limit(f),
                                                 offset |-> offset(f)],
                                      !.total = got.total,
                                      !.metadata = got.metadata,
                                      !.route = "product",
                                      !.where = <<pname, category, avg_rating>>,
                                      !.rows = got.rows]
    /\ request' = NoRequest
    /\ UNCHANGED <<product, review, nextPid, nextRid, tx, votes>>

----------------------------------------------------------------------------
(* Handlers of the review routes.  A handler runs in a slot: the slot holds *)
(* the request while the handler runs (pc "got", "validated", then the pc   *)
(* of the repository call) and the response once it has answered (pc        *)
(* "idle").  Each storage statement of a handler is a step of its own, so   *)
(* other requests run between them.                                         *)

\* strconv.ParseInt of the id in the path succeeded and the id is at least 1
readIDParam(id) == id >= 1

\* the slot of a handler that has read its request
Request(handler, id, pid, rating) ==
    [IdleTx EXCEPT !.handler = handler, !.id = id, !.pid = pid,
                   !.rating = rating]

\* the slot after the handler has written response w and returned
Answer(slot, res, errors, w) ==
    [slot EXCEPT !.pc = "idle", !.res = res, !.errors = errors,
                 !.status = w.status, !.location = w.location]

\* as ValidateReview, without the query for the product
ValidateReviewUnreferenced(v, Prod_ID, Rating, dbOk) ==
    LET v1 == Check(v, Prod_ID > 0, "Prod_ID:")
        v2 == Check(v1, Rating >= minRating /\ Rating <= maxRating, "Rating:")
        v3 == Check(v2, Prod_ID # 0, "Prod_ID:")
        v4 == Check(v3, Rating # 0, "Rating:")
    IN  IF ~dbOk THEN AddError(v4, "database") ELSE v4

\* as ValidateReview, without the check of the rating's range
ValidateReviewUnranged(v, Prod_ID, Rating, dbOk) ==
    LET v1 == Check(v, Prod_ID > 0, "Prod_ID:")
        v3 == Check(v1, Prod_ID # 0, "Prod_ID:")
        v4 == Check(v3, Rating # 0, "Rating:")
    IN  IF ~dbOk THEN AddError(v4, "database")
        ELSE IF Prod_ID \notin DOMAIN product THEN AddError(v4, "Prod_ID:")
        ELSE v4

\* ValidateReview; dbOk is false when the SELECT EXISTS query fails
ValidateReview(v, Prod_ID, Rating, dbOk) ==
    LET v1 == Check(v, Prod_ID > 0, "Prod_ID:")
        v2 == Check(v1, Rating >= minRating /\ Rating <= maxRating, "Rating:")
        v3 == Check(v2, Prod_ID # 0, "Prod_ID:")
        v4 == Check(v3, Rating # 0, "Rating:")
    IN  IF ~dbOk THEN AddError(v4, "database")
        ELSE IF Prod_ID \notin DOMAIN product THEN AddError(v4, "Prod_ID:")
        ELSE v4

\* createReviewHandler up to the validation: readJson (readable is false
\* for a body it rejects), ValidateReview
createReviewHandler(t, readable, pid, rating, dbOk) ==
    /\ tx[t] = IdleTx
    /\ readable \/ (pid = 0 /\ rating = 0 /\ dbOk)
    /\ LET req == Request("createReview", 0, pid, rating)
           v == ValidateReview({}, pid, rating, dbOk)
       IN  tx' = [tx EXCEPT ![t] =
                    IF ~readable
                    THEN Answer(req, "badrequest", {},
                                badRequestResponse(NewResponse))
                    ELSE IF ~IsEmpty(v)
                    THEN Answer(req, "invalid", v,
                                failedValidationResponse(NewResponse))
                    ELSE [req EXCEPT !.pc = "validated"]]
    /\ UNCHANGED <<product, review, nextPid, nextRid, votes, request, listing>>

\* the response in slot t is sent; the slot is free for the next request
Receive(t) ==
    /\ tx[t].pc = "idle" /\ tx[t].handler # "none"
    /\ tx' = [tx EXCEPT ![t] = IdleTx]
    /\ UNCHANGED <<product, review, nextPid, nextRid, votes, request, listing>>

\* createReviewHandler calls Insert; Reply is the rest of the handler
createReviewInsert(t) ==
    /\ tx[t].pc = "validated" /\ tx[t].handler = "createReview"
    /\ InsertBegin(t, tx[t].pid, tx[t].rating, "createReview")

\* updateReviewHandler up to the review it reads: readIDParam, Get
updateReviewHandler(t, id) ==
    /\ tx[t] = IdleTx
    /\ LET req == Request("updateReview", id, 0, 0)
           r == GetReview(id)
       IN  tx' = [tx EXCEPT ![t] =
                    IF ~readIDParam(id) \/ r.err = "notfound"
                    THEN Answer(req, "notfound", {},
                                notFoundResponse(NewResponse))
                    ELSE [req EXCEPT !.pc = "got", !.pid = r.prod_id,
                                     !.rating = r.rating]]
    /\ UNCHANGED <<product, review, nextPid, nextRid, votes, request, listing>>

\* updateReviewHandler from readJson to the validation; the body holds a
\* rating when hasRating
updateReviewValidate(t, readable, hasRating, rating, dbOk) ==
    /\ tx[t].pc = "got" /\ tx[t].handler = "updateReview"
    /\ readable \/ (~hasRating /\ dbOk)
    /\ hasRating \/ rating = 0
    /\ LET merged == IF hasRating THEN rating ELSE tx[t].rating
           v == ValidateReview({}, tx[t].pid, merged, dbOk)
       IN  tx' = [tx EXCEPT ![t] =
                    IF ~readable
                    THEN Answer(tx[t], "badrequest", {},
                                badRequestResponse(NewResponse))
                    ELSE IF ~IsEmpty(v)
                    THEN Answer([tx[t] EXCEPT !.rating = merged], "invalid", v,
                                failedValidationResponse(NewResponse))
                    ELSE [tx[t] EXCEPT !.pc = "validated", !.rating = merged]]
    /\ UNCHANGED <<product, review, nextPid, nextRid, votes, request, listing>>

\* updateReviewHandler calls Update; Reply is the rest of the handler
updateReviewUpdate(t) ==
    /\ tx[t].pc = "validated" /\ tx[t].handler = "updateReview"
    /\ UpdateBegin(t, tx[t].id, tx[t].rating, "updateReview")

\* deleteReviewHandler: readIDParam, then it calls Delete; Reply is the rest
\* of the handler
deleteReviewHandler(t, id) ==
    /\ tx[t] = IdleTx
    /\ IF ~readIDParam(id)
       THEN /\ tx' = [tx EXCEPT ![t] =
                        Answer(Request("deleteReview", id, 0, 0), "notfound",
                               {}, notFoundResponse(NewResponse))]
            /\ UNCHANGED <<product, review, nextPid, nextRid, votes, request,
                           listing>>
       ELSE DeleteBegin(t, id, "deleteReview")

\* as updateHelpfulCountHandler, without the check of the increment
updateHelpfulCountUnchecked(t, id, readable, increment) ==
    /\ tx[t] = IdleTx
    /\ readable \/ increment = 0
    /\ LET req == Request("updateHelpfulCount", id, 0, increment)
       IN  IF ~readIDParam(id)
           THEN /\ tx' = [tx EXCEPT ![t] =
                            Answer(req, "notfound", {},
                                   notFoundResponse(NewResponse))]
                /\ UNCHANGED <<review, votes>>
           ELSE IF ~readable
           THEN /\ tx' = [tx EXCEPT ![t] =
                            Answer(req, "badrequest", {},
                                   badRequestResponse(NewResponse))]
                /\ UNCHANGED <<review, votes>>
           ELSE IF increment # 1 /\ increment # -1
           THEN /\ tx' = [tx EXCEPT ![t] =
                            Answer(req, "error", {},
                                   serverErrorResponse(NewResponse))]
                /\ UNCHANGED <<review, votes>>
           ELSE IF id \notin DOMAIN review
           THEN /\ tx' = [tx EXCEPT ![t] =
                            Answer(req, "notfound", {},
                                   notFoundResponse(NewResponse))]
                /\ UNCHANGED <<review, votes>>
           ELSE /\ ~ReviewLocked(id)
                /\ Len(votes[id]) < MaxVotes
                /\ review' = [review EXCEPT
                                ![id].helpful_count = Greatest0(@, increment)]
                /\ votes' = [votes EXCEPT ![id] = Append(@, increment)]
                /\ tx' = [tx EXCEPT ![t] =
                            Answer(req, "ok", {},
                                   writeJson(NewResponse, StatusOK, 0))]
    /\ UNCHANGED <<product, nextPid, nextRid, request, listing>>

(* updateHelpfulCountHandler: readIDParam, readJson, the check of the       *)
(* increment, then UpdateHelpfulCount, which is one UPDATE statement.  The  *)
(* slot keeps the increment of the request in its rating field.             *)
updateHelpfulCountHandler(t, id, readable, increment) ==
    /\ tx[t] = IdleTx
    /\ readable \/ increment = 0
    /\ LET req == Request("updateHelpfulCount", id, 0, increment)
       IN  IF ~readIDParam(id)
           THEN /\ tx' = [tx EXCEPT ![t] =
                            Answer(req, "notfound", {},
                                   notFoundResponse(NewResponse))]
                /\ UNCHANGED <<review, votes>>
           ELSE IF ~readable
           THEN /\ tx' = [tx EXCEPT ![t] =
                            Answer(req, "badrequest", {},
                                   badRequestResponse(NewResponse))]
                /\ UNCHANGED <<review, votes>>
           ELSE IF increment # 1 /\ increment # -1
           THEN /\ tx' = [tx EXCEPT ![t] =
                            Answer(req, "invalid",
                                   AddError({}, "increment"),
                                   failedValidationResponse(NewResponse))]
                /\ UNCHANGED <<review, votes>>
           ELSE IF id \notin DOMAIN review
           THEN /\ tx' = [tx EXCEPT ![t] =
                            Answer(req, "notfound", {},
                                   notFoundResponse(NewResponse))]
                /\ UNCHANGED <<review, votes>>
           ELSE /\ ~ReviewLocked(id)
                /\ Len(votes[id]) < MaxVotes
                /\ review' = [review EXCEPT
                                ![id].helpful_count = Greatest0(@, increment)]
                /\ votes' = [votes EXCEPT ![id] = Append(@, increment)]
                /\ tx' = [tx EXCEPT ![t] =
                            Answer(req, "ok", {},
                                   writeJson(NewResponse, StatusOK, 0))]
    /\ UNCHANGED <<product, nextPid, nextRid, request, listing>>

----------------------------------------------------------------------------
(* updateProductHandler.  It reads the row, replaces the fields the body    *)
(* carries, and writes pname, product_category and image_url of the row     *)
(* back; the read and the write are two statements.                         *)

\* strings.TrimSpace, for the space character
RECURSIVE TrimSpace(_)
TrimSpace(str) ==
    IF str = <<>> THEN str
    ELSE IF str[1] = " " THEN TrimSpace(Tail(str))
    ELSE IF str[Len(str)] = " " THEN TrimSpace(Front(str))
    ELSE str

\* ValidateProduct
ValidateProduct(v, pname, category) ==
    LET v1 == Check(v, TrimSpace(pname) # <<>>, "Product Name")
        v2 == Check(v1, TrimSpace(category) # <<>>, "Product Category")
    IN  Check(v2, Len(pname) <= 255, "Product Name")

\* updateProductHandler up to the product it reads: readIDParam, Get
updateProductHandler(t, id) ==
    /\ tx[t] = IdleTx
    /\ LET req == Request("updateProduct", id, 0, 0)
           p == GetProduct(id)
       IN  tx' = [tx EXCEPT ![t] =
                    IF ~readIDParam(id) \/ p.err = "notfound"
                    THEN Answer(req, "notfound", {},
                                notFoundResponse(NewResponse))
                    ELSE IF p.err # "ok"
                    THEN Answer(req, "error", {},
                                serverErrorResponse(NewResponse))
                    ELSE [req EXCEPT !.pc = "got",
                                     !.pname = product[id].pname,
                                     !.category = product[id].product_category]]
    /\ UNCHANGED <<product, review, nextPid, nextRid, votes, request, listing>>

\* updateProductHandler from readJson to the validation; body is the set of
\* the fields the body carries, pname and category their values
updateProductValidate(t, readable, body, pname, category) ==
    /\ tx[t].pc = "got" /\ tx[t].handler = "updateProduct"
    /\ readable \/ body = {}
    /\ "pname" \in body \/ pname = <<>>
    /\ "product_category" \in body \/ category = <<>>
    /\ LET merged == [tx[t] EXCEPT
                        !.body = body,
                        !.pname = IF "pname" \in body THEN pname ELSE @,
                        !.category = IF "product_category" \in body
                                     THEN category ELSE @]
           v == ValidateProduct({}, merged.pname, merged.category)
       IN  tx' = [tx EXCEPT ![t] =
                    IF ~readable
                    THEN Answer(tx[t], "badrequest", {},
                                badRequestResponse(NewResponse))
                    ELSE IF ~IsEmpty(v)
                    THEN Answer(merged, "invalid", v,
                                failedValidationResponse(NewResponse))
                    ELSE [merged EXCEPT !.pc = "validated"]]
    /\ UNCHANGED <<product, review, nextPid, nextRid, votes, request, listing>>

\* updateProductHandler calls Update, which is one UPDATE statement, and
\* answers: any error of Update is answered as a server error
updateProductUpdate(t) ==
    /\ tx[t].pc = "validated" /\ tx[t].handler = "updateProduct"
    /\ \A u \in Txs : ~HoldsProduct(u, tx[t].id)
    /\ IF tx[t].id \in DOMAIN product
       THEN /\ product' = [product EXCEPT
                             ![tx[t].id].pname = tx[t].pname,
                             ![tx[t].id].product_category = tx[t].category]
            /\ tx' = [tx EXCEPT ![t] =
                        Answer(tx[t], "ok", {},
                               writeJson(NewResponse, StatusOK, 0))]
       ELSE /\ product' = product
            /\ tx' = [tx EXCEPT ![t] =
                        Answer(tx[t], "notfound", {},
                               serverErrorResponse(NewResponse))]
    /\ UNCHANGED <<review, nextPid, nextRid, votes, request, listing>>

----------------------------------------------------------------------------
Pids == 0..MaxPid
Rids == 0..MaxRid
Increments == {-1, 0, 1, 2}

\* the steps of request t, with ratings drawn from RS
TxStep(t, RS) ==
    \/ \E pid \in Pids, rating \in RS : InsertStart(t, pid, rating)
    \/ \E rid \in Rids, rating \in RS : UpdateStart(t, rid, rating)
    \/ \E id \in Rids : DeleteStart(t, id)
    \/ Exec(t)
    \/ Commit(t)
    \/ Fail(t)

(* Concurrent requests *)
Next ==
    \/ \E t \in Txs : TxStep(t, SomeRatings)
    \/ ProductInsert
    \/ \E id \in Pids : ProductDelete(id)

Spec == Init /\ [][Next]_vars

(* One request at a time, every rating *)
NextSeq ==
    \/ TxStep(1, Ratings)
    \/ ProductInsert
    \/ \E id \in Pids : ProductDelete(id)

SpecSeq == Init /\ [][NextSeq]_vars

(* Helpful-count statements, concurrent with one review transaction *)
NextVotes ==
    \/ TxStep(1, SomeRatings)
    \/ ProductInsert
    \/ \E rid \in Rids, inc \in Increments : UpdateHelpfulCount(rid, inc)

SpecVotes == Init /\ [][NextVotes]_vars

\* bodies and ids of the requests to the review routes
BodyRatings == {0, 2, 4, 6}
BodyPids == 0..MaxPid
PathIds == 0..MaxRid
\* 0 is the increment of a body without one
BodyIncrements == {0, 1, 2}

(* The review routes, one request at a time, with products inserted and     *)
(* deleted between the statements of a handler *)
NextHttp ==
    \/ \E readable \in BOOLEAN, pid \in BodyPids, rating \in BodyRatings,
          dbOk \in BOOLEAN : createReviewHandler(1, readable, pid, rating, dbOk)
    \/ createReviewInsert(1)
    \/ \E id \in PathIds : updateReviewHandler(1, id)
    \/ \E readable \in BOOLEAN, hasRating \in BOOLEAN, rating \in BodyRatings,
          dbOk \in BOOLEAN :
              updateReviewValidate(1, readable, hasRating, rating, dbOk)
    \/ updateReviewUpdate(1)
    \/ \E id \in PathIds : deleteReviewHandler(1, id)
    \/ \E id \in PathIds, readable \in BOOLEAN, increment \in BodyIncrements :
          updateHelpfulCountHandler(1, id, readable, increment)
    \/ Exec(1)
    \/ Commit(1)
    \/ Fail(1)
    \/ Receive(1)
    \/ ProductInsert
    \/ \E id \in Pids : ProductDelete(id)

SpecHttp == Init /\ [][NextHttp]_vars

\* names and categories a product update can carry
Pnames == {<<"a">>, <<"b">>}
Categories == {<<"x">>, <<"y">>}

(* Product writes between the steps of one review transaction *)
NextProducts ==
    \/ TxStep(1, SomeRatings)
    \/ ProductInsert
    \/ \E id \in Pids, pname \in Pnames, category \in Categories :
          ProductUpdate(id, pname, category)
    \/ \E id \in Pids : ProductDelete(id)

SpecProducts == Init /\ [][NextProducts]_vars

\* the query strings of the list requests
ProductQueryStrings ==
    [pname : {<<>>, <<"b">>}, product_category : {<<>>},
     avg_rating : {<<>>, <<"4">>, <<"x">>},
     page : {<<>>, <<"2">>, <<"3">>}, page_size : {<<>>, <<"1">>},
     sort : {<<>>, Dash \o sPid, sName}]
ReviewQueryStrings ==
    [prod_id : {<<>>, <<"1">>}, rating : {<<>>}, helpful_count : {<<>>},
     page : {<<>>, <<"2">>}, page_size : {<<>>, <<"1">>},
     sort : {<<>>, Dash \o sRating}]

\* no list request is being served
Quiet == request = NoRequest /\ listing = NoListing

(* List requests, served between the writes *)
NextList ==
    \/ Quiet /\ TxStep(1, {4})
    \/ Quiet /\ ProductInsert
    \/ Quiet /\ \E id \in Pids, pname \in Pnames :
                    ProductUpdate(id, pname, NewCategory)
    \/ tx[1].pc = "idle" /\ ListRequest(ProductQueryStrings)
    \/ tx[1].pc = "idle" /\ ListRequest(ReviewQueryStrings)
    \/ ListProductsHandler
    \/ ListReviewsHandler
    \/ ListResponse

SpecList == Init /\ [][NextList]_vars

\* bodies of the requests to PATCH /v1/product/:id
PatchBodies == SUBSET {"pname", "product_category"}
PatchPnames == {<<"b">>, <<" ">>}
PatchCategories == {<<"y">>}

\* the steps of a PATCH /v1/product/:id in slot t
PatchStep(t) ==
    \/ \E id \in 0..1 : updateProductHandler(t, id)
    \/ \E readable \in BOOLEAN, body \in PatchBodies,
          pname \in PatchPnames \cup {<<>>},
          category \in PatchCategories \cup {<<>>} :
              /\ "pname" \in body => pname # <<>>
              /\ "product_category" \in body => category # <<>>
              /\ updateProductValidate(t, readable, body, pname, category)
    \/ updateProductUpdate(t)
    \/ Receive(t)

(* Two concurrent product updates, on products that have been given a       *)
(* review *)
NextPatch ==
    \/ tx[2] = IdleTx /\ \E pid \in BodyPids :
                             createReviewHandler(1, TRUE, pid, 4, TRUE)
    \/ createReviewInsert(1)
    \/ Exec(1)
    \/ Commit(1)
    \/ ProductInsert
    \/ \E t \in Txs : PatchStep(t)

SpecPatch == Init /\ [][NextPatch]_vars

EntityTexts == {<<>>, <<"1">>, <<"x">>}
PageTexts == {<<>>, <<"0">>, <<"1">>, <<"2">>, <<"5", "0", "0">>, <<"5", "0", "1">>, <<"-", "1">>, <<"a", "b", "c">>}
PageSizeTexts == {<<>>, <<"0">>, <<"1">>, <<"1", "0">>, <<"1", "0", "0">>, <<"1", "0", "1">>, <<"-", "1">>, <<"1", "x">>}
SortTexts ==
    {<<>>, Dash, <<"p", "i", "d">>, <<"r", "i", "d", ";">>, Dash \o Dash \o sRid,
     Dash \o Dash \o sCreatedAt} \cup
    {ReviewSortSafeList[i] : i \in DOMAIN ReviewSortSafeList}

QueryStrings ==
    [prod_id : EntityTexts, rating : EntityTexts, helpful_count : EntityTexts,
     page : PageTexts, page_size : PageSizeTexts, sort : SortTexts]

NextFilters ==
    \/ ListRequest(QueryStrings)
    \/ ListReviewsHandler
    \/ ListResponse

SpecFilters == Init /\ [][NextFilters]_vars

TotalRecords == 0..MaxTotal
Pages == 1..MaxPage
PageSizes == {1, 2, 5, 10, 100}

NextMetadata ==
    \E total \in TotalRecords, page \in Pages, size \in PageSizes :
        CalculateMetaData(total, page, size)

SpecMetadata == Init /\ [][NextMetadata]_vars


----------------------------------------------------------------------------
(* Steps, as seen from outside *)

\* request t's transaction commits in this step
Committed(t) ==
    tx[t].pc = "executed" /\ tx'[t].pc = "idle" /\ tx'[t].res = "ok"

\* request t's transaction ends in this step without committing
Failed(t) ==
    tx[t].pc # "idle" /\ tx'[t].pc = "idle" /\ tx'[t].res # "ok"

\* avg is the mean of the ratings of pid's reviews in rev, rounded to 2
\* places, or the empty-state value (0 or NULL) when pid has none
IsMean(avg, rev, pid) ==
    IF ReviewsOf(rev, pid) = {} THEN avg \in {0, NULL}
    ELSE avg = AvgRating(rev, pid)

\* what a reader of table tbl sees of the reviews besides the helpful counts
RatingRows(tbl) == [r \in DOMAIN tbl |-> <<tbl[r].prod_id, tbl[r].rating>>]

----------------------------------------------------------------------------
\* C1: in every reachable state each product's stored average is the rounded
\* mean of the ratings of the reviews it owns, or 0 or NULL when it owns none.
C1_AverageIsMean ==
    \A p \in DOMAIN product : IsMean(product[p].avg_rating, review, p)

\* C2: a review mutation and the recomputed average become visible in one
\* step or not at all: a commit shows the review change together with the
\* average the transaction wrote, a transaction that fails changes neither
\* table, and no other step changes a rating row or an average.
C2_MutationAndAverageAtomic ==
    [][/\ \A t \in Txs :
            /\ Committed(t) =>
                 /\ product'[tx[t].pid].avg_rating = tx[t].avg
                 /\ CASE tx[t].op = "insert" ->
                            /\ tx[t].id \notin DOMAIN review
                            /\ tx[t].id \in DOMAIN review'
                            /\ review'[tx[t].id].rating = tx[t].rating
                            /\ review'[tx[t].id].prod_id = tx[t].pid
                      [] tx[t].op = "update" ->
                            /\ tx[t].id \in DOMAIN review'
                            /\ review'[tx[t].id].rating = tx[t].rating
                      [] tx[t].op = "delete" ->
                            /\ tx[t].id \in DOMAIN review
                            /\ tx[t].id \notin DOMAIN review'
            /\ Failed(t) => review' = review /\ product' = product
       /\ ((\A t \in Txs : ~Committed(t)) /\ DOMAIN product' = DOMAIN product)
             => (product' = product /\ RatingRows(review') = RatingRows(review))
      ]_vars

\* one request's transaction has committed while another one on the same
\* product was open, which has now run its statement
C2_Witness ==
    \E t \in Txs, u \in Txs :
        tx[t].res = "ok" /\ tx[u].pc = "executed" /\ tx[u].conc

\* C3: when review mutations on one product overlap and all commit, the
\* average stored once the last of them has committed is the rounded mean of
\* the product's reviews at that point.
C3_ConcurrentRecomputationsSerialized ==
    [][\A t \in Txs :
          (/\ Committed(t)
           /\ tx[t].conc
           /\ \A u \in Txs \ {t} : tx[u].pc = "idle")
          => IsMean(product'[tx[t].pid].avg_rating, review', tx[t].pid)
      ]_vars

\* C4: inserting a review with rating r for a product without reviews and then
\* reading the product returns average_rating = r.
C4_InsertThenGetReturnsRating ==
    [][\A t \in Txs :
          (/\ Committed(t)
           /\ tx[t].op = "insert"
           /\ ReviewsOf(review, tx[t].pid) = {})
          => GetProduct(tx[t].pid)' = [err |-> "ok", avg |-> 100 * tx[t].rating]
      ]_vars

\* C5: a committed delete leaves the owning product's average at the rounded
\* mean of the reviews that remain, and at 0 when none remains.
C5_DeleteRecomputesOverRemaining ==
    [][\A t \in Txs :
          (Committed(t) /\ tx[t].op = "delete")
          => product'[tx[t].pid].avg_rating
                 = Coalesce0(AvgRating(review', tx[t].pid))
      ]_vars

----------------------------------------------------------------------------
(* Helpful counts.  A review is created with count 0, and votes[rid] lists *)
(* the increments applied to review rid since, in the order in which the   *)
(* storage engine applied them.                                            *)

RECURSIVE Sum(_)
Sum(seq) == IF seq = <<>> THEN 0 ELSE seq[1] + Sum(Tail(seq))

\* the number of decrements of seq that were applied at count 0
RECURSIVE Absorbed(_)
Absorbed(seq) ==
    IF seq = <<>> THEN 0
    ELSE Absorbed(Front(seq))
         + (IF seq[Len(seq)] = -1 /\ Sum(Front(seq)) + Absorbed(Front(seq)) = 0
            THEN 1 ELSE 0)

\* C6: a helpful-count operation with delta d sets the count to
\* max(0, old + d); the count is never negative, a new review starts at 0, a
\* decrement at 0 leaves 0, and +1, +1, -1 from 0 leaves 1.
C6_HelpfulCountFloorsAtZero ==
    [][\A rid \in DOMAIN review' :
          /\ review'[rid].helpful_count >= 0
          /\ rid \notin DOMAIN review => review'[rid].helpful_count = 0
          /\ (rid \in DOMAIN review /\ votes'[rid] # votes[rid]) =>
                 review'[rid].helpful_count =
                     Max(0, review[rid].helpful_count
                            + votes'[rid][Len(votes'[rid])])
          /\ votes'[rid] = <<-1>> => review'[rid].helpful_count = 0
          /\ votes'[rid] = <<1, 1, -1>> => review'[rid].helpful_count = 1
      ]_vars

C6_Witness ==
    \E rid \in DOMAIN review :
        votes[rid] = <<1, 1, -1>> /\ review[rid].helpful_count = 1

\* C7: increments are never lost: a review to which only +1 has been applied,
\* n times, whatever ran in between, has count n.
C7_NoLostIncrement ==
    \A rid \in DOMAIN review :
        (\A i \in 1..Len(votes[rid]) : votes[rid][i] = 1)
            => review[rid].helpful_count = Len(votes[rid])

\* two increments went through while a review transaction on the same review
\* was open, which has now committed
C7_Witness ==
    \E rid \in DOMAIN review :
        /\ votes[rid] = <<1, 1>>
        /\ review[rid].helpful_count = 2
        /\ tx[1].res = "ok"

\* C8, as claimed: the count is the net applied delta, floored at 0.
C8_CountIsFlooredNetDelta ==
    \A rid \in DOMAIN review :
        review[rid].helpful_count = Max(0, Sum(votes[rid]))

\* C8, amended: the count is the net applied delta plus the number of
\* decrements that were applied while the count was 0.
C8_CountIsNetDeltaPlusAbsorbed ==
    \A rid \in DOMAIN review :
        /\ review[rid].helpful_count = Sum(votes[rid]) + Absorbed(votes[rid])
        /\ Absorbed(votes[rid]) = 0 =>
               review[rid].helpful_count = Max(0, Sum(votes[rid]))

C8_Witness ==
    \E rid \in DOMAIN review :
        votes[rid] = <<-1, 1>> /\ review[rid].helpful_count = 1

----------------------------------------------------------------------------
(* List requests *)

Elems(seq) == {seq[i] : i \in DOMAIN seq}

\* C9: for a sort key that is not in the allow-list, the column of the
\* ORDER BY is the allow-list's default, not the supplied text; the ORDER BY
\* holds no text from outside the allow-list.
C9_UnlistedSortKeyGivesDefault ==
    listing.query # NoQuery =>
        /\ listing.filters.Sort \notin Elems(ReviewSortSafeList) =>
               /\ listing.query.column = ReviewSortSafeList[1]
               /\ listing.query.column # listing.filters.Sort
        /\ listing.query.column \in Elems(ReviewSortSafeList)
        /\ listing.query.direction \in {ASC, DESC}

C9_Witness ==
    /\ listing.filters.Sort = Dash \o Dash \o sCreatedAt
    /\ listing.query.column = sRid

\* the sort key without its leading descending marker
Stripped(key) == IF key # <<>> /\ key[1] = "-" THEN Tail(key) ELSE key

\* C10: filter validation reports an error exactly when page <= 0,
\* page > 500, page_size <= 0, page_size > 100, or the sort key without its
\* descending marker is not in the allow-list.
C10_ValidationErrorIff ==
    listing.filters # NoFilters =>
        (listing.errors # listing.parsed
            <=> \/ listing.filters.Page <= 0
                \/ listing.filters.Page > 500
                \/ listing.filters.PageSize <= 0
                \/ listing.filters.PageSize > 100
                \/ Stripped(listing.filters.Sort)
                       \notin Elems(listing.filters.SortSafeList))

\* a request refused for its sort key alone, and one accepted with a
\* descending key
C10_Witness ==
    \/ listing.filters.Sort = Dash /\ listing.errors = {"sort"}
    \/ listing.filters.Sort = Dash \o sRating /\ listing.status = "error"

\* the columns of table review a list of reviews can be ordered by
ReviewColumns == {sRid, sRating, sHelpfulCount, sCreatedAt}

\* C11: for a sort key that passed validation, the column of the ORDER BY is
\* the key without its descending marker, a column of the allow-list, and
\* the direction is DESC exactly when the key begins with the marker.
C11_OrderByIsStrippedKey ==
    listing.query # NoQuery =>
        /\ listing.query.column = Stripped(listing.filters.Sort)
        /\ listing.query.column \in ReviewColumns
        /\ listing.query.direction =
               (IF listing.filters.Sort[1] = "-" THEN DESC ELSE ASC)

\* C12: for filters that passed validation, limit is page_size and offset is
\* (page - 1) * page_size, which lies in 0..49900.
C12_LimitAndOffset ==
    listing.query # NoQuery =>
        /\ listing.filters.Page \in 1..500
        /\ listing.filters.PageSize \in 1..100
        /\ listing.query.limit = listing.filters.PageSize
        /\ listing.query.offset =
               (listing.filters.Page - 1) * listing.filters.PageSize
        /\ listing.query.offset \in 0..49900

C12_Witness ==
    /\ listing.filters.Page = 500
    /\ listing.filters.PageSize = 100
    /\ listing.query.offset = 49900

\* an integer parameter of the query string holds a value outside lo..hi,
\* or no integer at all
BadInteger(text, lo, hi) ==
    text # <<>> /\ (Atoi(text).err \/ Atoi(text).n \notin lo..hi)

\* C19: the validation failure of a list request names every invalid one of
\* page, page_size and sort, not only the first invalid field found.
C19_EveryInvalidFieldNamed ==
    [][(request # NoRequest /\ request' = NoRequest) =>
          LET q == request[1]
          IN  /\ BadInteger(q.page, 1, 500) => "page" \in listing'.errors
              /\ BadInteger(q.page_size, 1, 100) =>
                     "page_size" \in listing'.errors
              /\ (q.sort # <<>> /\ Stripped(q.sort) \notin
                      Elems(ReviewSortSafeList)) => "sort" \in listing'.errors
      ]_vars

\* C13: the metadata is all-zero when total = 0; otherwise first_page = 1,
\* last_page = ceil(total / page_size), has_next = (page < last_page),
\* has_prev = (page > 1), next_page = page + 1 only when has_next and
\* prev_page = page - 1 only when has_prev; (23, 3, 10) gives last_page 3,
\* no next page and prev_page 2.
C13_Metadata ==
    listing.status = "metadata" =>
        LET m == listing.metadata
            total == listing.total
            page == listing.filters.Page
            size == listing.filters.PageSize
        IN  /\ total = 0 => m = NoMetadata
            /\ total # 0 =>
                   /\ m.CurrentPage = page /\ m.PageSize = size
                   /\ m.TotalRecords = total
                   /\ m.FirstPage = 1
                   /\ m.LastPage * size >= total
                   /\ (m.LastPage - 1) * size < total
                   /\ m.HasNextPage = (page < m.LastPage)
                   /\ m.HasPrevPage = (page > 1)
                   /\ m.NextPage = (IF m.HasNextPage THEN page + 1 ELSE 0)
                   /\ m.PrevPage = (IF m.HasPrevPage THEN page - 1 ELSE 0)
            /\ (total = 23 /\ page = 3 /\ size = 10) =>
                   m.LastPage = 3 /\ ~m.HasNextPage /\ m.PrevPage = 2

C13_Witness ==
    /\ listing.status = "metadata"
    /\ listing.total = 23
    /\ listing.filters.Page = 3
    /\ listing.filters.PageSize = 10
    /\ listing.metadata.LastPage = 3

----------------------------------------------------------------------------
(* Ids *)

\* C15: deleting a product deletes the reviews it owns: get-by-id of each
\* of them then returns RecordNotFound, and no stored review references a
\* product that does not exist.
C15_ProductDeleteCascades ==
    [][/\ \A r \in DOMAIN review' : review'[r].prod_id \in DOMAIN product'
       /\ \A p \in DOMAIN product \ DOMAIN product' :
              \A r \in ReviewsOf(review, p) : GetReview(r)'.err = "notfound"
      ]_vars

\* a product was deleted with a review that request 1 had begun to update;
\* no other request has run
C15_Witness ==
    /\ tx[1].pc = "started" /\ tx[1].op = "update"
    /\ tx[1].pid # 0
    /\ tx[1].pid \notin DOMAIN product
    /\ tx[1].id \notin DOMAIN review
    /\ tx[2] = IdleTx

\* C16: a repository operation addressed by an id that is less than 1, or
\* that no row has, returns RecordNotFound and changes no state; it is not
\* reported as a generic error.
C16_BadIdIsRecordNotFound ==
    [][/\ \A id \in Pids :
              (id < 1 \/ id \notin DOMAIN product) =>
                  GetProduct(id).err = "notfound"
       /\ \A id \in Rids :
              (id < 1 \/ id \notin DOMAIN review) =>
                  GetReview(id).err = "notfound"
       /\ \A t \in Txs :
              \* Delete returns before it has opened a transaction
              /\ (tx[t].pc = "idle" /\ tx'[t].pc = "idle" /\ tx'[t] # tx[t]) =>
                     /\ tx'[t].res = "notfound"
                     /\ review' = review /\ product' = product
              \* Delete finds no row
              /\ (tx[t].pc = "started" /\ tx[t].op = "delete"
                    /\ tx[t].id \notin DOMAIN review /\ tx'[t].pc # "started") =>
                     /\ tx'[t].pc = "idle" /\ tx'[t].res # "ok"
                     /\ review' = review /\ product' = product
      ]_vars

\* request 1 is answered in this step by handler
Answered(handler) ==
    tx'[1].pc = "idle" /\ tx'[1] # tx[1] /\ tx'[1].handler = handler

\* C14: a create-review request whose product id no product has, when the
\* handler validates it, fails with a validation error (400) that names the
\* product id or the failed query, and the step changes no review, no
\* product and no average.
C14_DanglingCreateFailsValidation ==
    [][(/\ tx[1] = IdleTx
        /\ tx'[1] # tx[1]
        /\ tx'[1].handler = "createReview"
        /\ tx'[1].res # "badrequest"
        /\ tx'[1].pid \notin DOMAIN product) =>
           /\ tx'[1].pc = "idle"
           /\ tx'[1].res = "invalid"
           /\ tx'[1].status = StatusBadRequest
           /\ "Prod_ID:" \in tx'[1].errors \/ "database" \in tx'[1].errors
           /\ review' = review /\ product' = product
      ]_vars

\* a create-review request for a product id that is not there, among
\* products and reviews that are, was answered with the error for the id only
C14_Witness ==
    /\ tx[1].pc = "idle" /\ tx[1].handler = "createReview"
    /\ tx[1].res = "invalid" /\ tx[1].errors = {"Prod_ID:"}
    /\ tx[1].pid >= 1 /\ tx[1].pid \notin DOMAIN product
    /\ product # <<>> /\ review # <<>>

\* C17: an update of a review whose row is gone when Update writes returns
\* RecordNotFound, is answered with 404, and changes no review and no
\* product.
C17_VanishedUpdateIsNotFound ==
    [][(/\ Exec(1)
        /\ tx[1].handler = "updateReview"
        /\ tx[1].id \notin DOMAIN review) =>
           /\ tx'[1].res = "notfound"
           /\ tx'[1].status = StatusNotFound
           /\ review' = review /\ product' = product
      ]_vars

\* C18 as stated: a helpful-count request whose increment is neither 1 nor
\* -1 fails validation (400) and changes no helpful count.
C18_InvalidDeltaFailsValidation ==
    [][(/\ tx[1] = IdleTx
        /\ Answered("updateHelpfulCount")
        /\ tx'[1].res # "badrequest"
        /\ tx'[1].rating \notin {1, -1}) =>
           /\ tx'[1].res = "invalid"
           /\ tx'[1].status = StatusBadRequest
           /\ review' = review /\ votes' = votes
      ]_vars

\* C18 amended: a helpful-count request whose increment is neither 1 nor -1
\* changes no helpful count and reaches no storage statement: with an id of
\* at least 1 it fails validation (400, naming the increment), with an id
\* below 1 it is answered not found (404).
C18_InvalidDeltaRejected ==
    [][(/\ tx[1] = IdleTx
        /\ Answered("updateHelpfulCount")
        /\ tx'[1].res # "badrequest"
        /\ tx'[1].rating \notin {1, -1}) =>
           /\ review' = review /\ votes' = votes
           /\ IF tx'[1].id >= 1
              THEN /\ tx'[1].res = "invalid"
                   /\ tx'[1].status = StatusBadRequest
                   /\ tx'[1].errors = {"increment"}
              ELSE /\ tx'[1].res = "notfound"
                   /\ tx'[1].status = StatusNotFound
      ]_vars

\* an increment of 2 for a review that has a helpful count of 1 failed
\* validation
C18_Witness ==
    /\ tx[1].pc = "idle" /\ tx[1].handler = "updateHelpfulCount"
    /\ tx[1].res = "invalid" /\ tx[1].rating = 2
    /\ tx[1].id \in DOMAIN review
    /\ review[tx[1].id].helpful_count = 1

\* C20: a create that succeeded is answered with 201 and the Location of the
\* new row; a request that failed validation with 400; a request for a row
\* that is not there with 404; a storage error that is neither with 500.
C20_StatusCodes ==
    [][\A h \in {"createReview", "updateReview", "deleteReview",
                 "updateHelpfulCount"} :
           Answered(h) =>
               /\ (h = "createReview" /\ tx'[1].res = "ok") =>
                      /\ tx'[1].status = StatusCreated
                      /\ tx'[1].location = tx'[1].id
                      /\ tx'[1].id \in DOMAIN review'
               /\ tx'[1].res = "invalid" => tx'[1].status = StatusBadRequest
               /\ tx'[1].res = "notfound" => tx'[1].status = StatusNotFound
               /\ tx'[1].res = "error" =>
                      tx'[1].status = StatusInternalServerError
      ]_vars

\* C21: the INSERT of a create-review request that passed validation never
\* fails on the foreign key: the request ends with the review committed for
\* a product that is there, or with a validation error.
C21_NoForeignKeyFailure ==
    [][(Exec(1) /\ tx[1].handler = "createReview") =>
           /\ tx'[1].pc = "executed"
           /\ tx'[1].pid \in DOMAIN product'
      ]_vars

\* C29: a product that has just been inserted, and owns no review, is read
\* by get-by-id under the id the insert assigned, without an error.
C29_InsertedProductIsReadable ==
    [][\A p \in DOMAIN product' \ DOMAIN product :
           /\ ReviewsOf(review', p) = {}
           /\ GetProduct(p)'.err = "ok"
      ]_vars

\* C26: every stored review has a rating within 1..5, and a create or an
\* update request whose rating is outside 1..5 fails validation (400, naming
\* the rating) in a step that changes no review and no product.
C26_RatingInRange ==
    [][/\ \A r \in DOMAIN review' :
              review'[r].rating \in minRating..maxRating
       /\ (/\ \/ tx[1] = IdleTx /\ tx'[1].handler = "createReview"
              \/ tx[1].pc = "got" /\ tx'[1].handler = "updateReview"
           /\ tx'[1] # tx[1]
           /\ tx'[1].res # "badrequest"
           /\ tx'[1].rating \notin minRating..maxRating) =>
              /\ tx'[1].pc = "idle"
              /\ tx'[1].res = "invalid"
              /\ "Rating:" \in tx'[1].errors
              /\ tx'[1].status = StatusBadRequest
              /\ review' = review /\ product' = product
      ]_vars

\* an update of a stored review to the rating 6 failed validation for the
\* rating only, and the review has kept its rating
C26_Witness ==
    /\ tx[1].pc = "idle" /\ tx[1].handler = "updateReview"
    /\ tx[1].res = "invalid" /\ tx[1].errors = {"Rating:"}
    /\ tx[1].rating = 6
    /\ tx[1].id \in DOMAIN review
    /\ review[tx[1].id].rating = 4

\* C28: the helpful count of a review changes only in a helpful-count
\* operation; a committed rating update leaves the review's helpful count,
\* owning product and creation time unchanged; a helpful-count operation
\* leaves the review's rating, every other review and every product
\* unchanged.
C28_HelpfulCountFrame ==
    [][\A rid \in DOMAIN review \cap DOMAIN review' :
           /\ review'[rid].helpful_count # review[rid].helpful_count =>
                  votes'[rid] # votes[rid]
           /\ (tx[1].op = "update" /\ tx[1].id = rid /\ Committed(1)) =>
                  /\ review'[rid].rating = tx[1].rating
                  /\ review'[rid].helpful_count = review[rid].helpful_count
                  /\ review'[rid].prod_id = review[rid].prod_id
                  /\ review'[rid].created_at = review[rid].created_at
           /\ votes'[rid] # votes[rid] =>
                  /\ review'[rid].rating = review[rid].rating
                  /\ review'[rid].prod_id = review[rid].prod_id
                  /\ review'[rid].created_at = review[rid].created_at
                  /\ \A o \in DOMAIN review \ {rid} :
                         o \in DOMAIN review' /\ review'[o] = review[o]
                  /\ DOMAIN review' = DOMAIN review
                  /\ product' = product
      ]_vars

\* a rating update of review 2, which has a helpful count of 2 and is not
\* the first row inserted, has run and is about to commit another rating
C28_Witness ==
    /\ tx[1].pc = "executed" /\ tx[1].op = "update" /\ tx[1].id = 2
    /\ 2 \in DOMAIN review
    /\ review[2].helpful_count = 2
    /\ review[2].rating # tx[1].rating

\* C27: a new product has the empty-state average (NULL); the stored
\* average of a product changes only when a review insert, rating update or
\* delete for that product commits, which leaves the average of every other
\* product unchanged; a product insert and a product update change no
\* stored average.
C27_AverageNotClientSettable ==
    [][/\ \A p \in DOMAIN product' \ DOMAIN product :
              product'[p].avg_rating = NULL
       /\ \A p \in DOMAIN product \cap DOMAIN product' :
              /\ product'[p].avg_rating # product[p].avg_rating =>
                     /\ Committed(1)
                     /\ tx[1].pid = p
                     /\ product'[p].avg_rating = tx[1].avg
              /\ (\/ product'[p].pname # product[p].pname
                  \/ product'[p].product_category # product[p].product_category
                  \/ DOMAIN product' # DOMAIN product) =>
                     \A q \in DOMAIN product \cap DOMAIN product' :
                         product'[q].avg_rating = product[q].avg_rating
      ]_vars

\* product 1 has been renamed and has kept the average of its two reviews,
\* next to a product that has no review
C27_Witness ==
    /\ DOMAIN product = {1, 2}
    /\ product[1].pname = <<"b">> /\ product[1].avg_rating = 300
    /\ ReviewsOf(review, 1) = {1, 2}
    /\ product[2].avg_rating = NULL

\* a list request with valid filters is answered in this step
Served(route) ==
    /\ listing = NoListing
    /\ listing'.route = route
    /\ listing'.status \in {"ok", "error"}

\* the records the statement of the list request served in this step selects
Selected ==
    IF listing'.route = "product"
    THEN ProductWhere(product, listing'.where[1], listing'.where[2],
                      FormatAvg(listing'.where[3]))
    ELSE ReviewWhere(review, product, listing'.where[1], listing'.where[2],
                     listing'.where[3])

\* C22: get-all with valid filters returns a page of at most page_size
\* records and no error, for every page; its Metadata is zero-valued only
\* when the statement selects no record, and otherwise holds the number of
\* selected records and ceil(total_records / page_size) as the last page.
C22_PageAndMetadata ==
    [][\A route \in {"product", "review"} :
           Served(route) =>
               /\ listing'.status = "ok"
               /\ Len(listing'.rows) <= listing'.filters.PageSize
               /\ listing'.metadata = NoMetadata => Selected = {}
               /\ Selected # {} =>
                      /\ listing'.metadata.TotalRecords = Cardinality(Selected)
                      /\ listing'.metadata.LastPage =
                             (Cardinality(Selected)
                                + listing'.filters.PageSize - 1)
                                \div listing'.filters.PageSize
      ]_vars

\* the rows of the product page served in this step, had the statement
\* ordered by the sort key of the request
ProductPageSorted ==
    LET f == listing'.filters
        column == Stripped(f.Sort)
        key == [p \in Selected |->
                   IF column = sAvgRating THEN product[p].avg_rating ELSE p]
    IN  LimitOffset(OrderBy(key, f.Sort[1] = "-"), limit(f), offset(f))

\* C23: the page of products is ordered by the sort column of the request
\* in its direction, and the statement for the page of reviews orders by
\* the sort column of the request in its direction.
C23_SortApplied ==
    [][/\ (Served("product") /\ listing'.status = "ok") =>
              listing'.rows = ProductPageSorted
       /\ Served("review") =>
              /\ listing'.query.column = Stripped(listing'.filters.Sort)
              /\ listing'.query.direction =
                     (IF listing'.filters.Sort[1] = "-" THEN DESC ELSE ASC)
      ]_vars

\* the rows of pages 1..last of a list of pages
RECURSIVE Pages1To(_, _)
Pages1To(page, last) ==
    IF last = 0 THEN <<>> ELSE Pages1To(page, last - 1) \o page[last]

\* pages 1..last_page hold each of the records of set once
Partition(page, last, set) ==
    LET all == Pages1To(page, last)
    IN  /\ Elems(all) = set
        /\ Len(all) = Cardinality(set)

\* C24: with the tables fixed, the pages 1..last_page of get-all are
\* disjoint and hold every selected record once, for products and for
\* reviews, also when the sort column has equal values.
C24_PagesPartition ==
    \A size \in {1, 10} :
        LET pf(n) == [Page |-> n, PageSize |-> size, Sort |-> sPid,
                      SortSafeList |-> ProductSortSafeList]
            rf(n) == [Page |-> n, PageSize |-> size, Sort |-> sRating,
                      SortSafeList |-> ReviewSortSafeList]
            pget(n) == ProductGetAll(<<>>, <<>>, 4, pf(n))
            rget(n) == ReviewGetAll(1, 4, 0, rf(n))
            pset == ProductWhere(product, <<>>, <<>>, FormatAvg(4))
            rset == ReviewWhere(review, product, 1, 4, 0)
        IN  /\ pset # {} =>
                /\ pget(1).err = "ok"
                /\ Partition([n \in 1..pget(1).metadata.LastPage |->
                                 pget(n).rows],
                             pget(1).metadata.LastPage, pset)
            /\ rset # {} =>
                /\ rget(1).err = "ok"
                /\ Partition([n \in 1..rget(1).metadata.LastPage |->
                                 rget(n).rows],
                             rget(1).metadata.LastPage, rset)

\* C25: a list request that supplies no entity filter selects every stored
\* record of the entity, and a supplied filter selects the records whose
\* field has the given value.
C25_OptionalFilters ==
    [][/\ Served("product") =>
              LET q == request[1]
              IN  /\ listing'.status = "ok"
                  /\ Selected =
                         {p \in DOMAIN product :
                             /\ q.pname = <<>> \/ product[p].pname = q.pname
                             /\ q.product_category = <<>>
                                  \/ product[p].product_category
                                       = q.product_category
                             /\ q.avg_rating = <<>>
                                  \/ product[p].avg_rating
                                       = 100 * Atoi(q.avg_rating).n}
                  /\ Elems(listing'.rows) \subseteq Selected
       /\ Served("review") =>
              LET q == request[1]
              IN  /\ listing'.status = "ok"
                  /\ Selected =
                         {r \in DOMAIN review :
                             /\ q.prod_id = <<>>
                                  \/ review[r].prod_id = Atoi(q.prod_id).n
                             /\ q.rating = <<>>
                                  \/ review[r].rating = Atoi(q.rating).n
                             /\ q.helpful_count = <<>>
                                  \/ review[r].helpful_count
                                       = Atoi(q.helpful_count).n}
                  /\ Elems(listing'.rows) \subseteq Selected
      ]_vars

\* C30: once a PATCH of a product that carries only pname and a concurrent
\* PATCH of the same product that carries only product_category have both
\* been answered with success, the stored product has both new values.
C30_BothPatchesTakeEffect ==
    \A t, u \in Txs :
        (/\ t # u
         /\ tx[t].handler = "updateProduct" /\ tx[u].handler = "updateProduct"
         /\ tx[t].pc = "idle" /\ tx[t].res = "ok"
         /\ tx[u].pc = "idle" /\ tx[u].res = "ok"
         /\ tx[t].id = tx[u].id
         /\ tx[t].body = {"pname"}
         /\ tx[u].body = {"product_category"}) =>
            /\ product[tx[t].id].pname = tx[t].pname
            /\ product[tx[u].id].product_category = tx[u].category

====
